---- MODULE Spec2Model ----
(***************************************************************************)
(* Model of the extraction-and-merge engine of the Pixid Invoice Updater   *)
(* (src/app.py): read_rav_content aggregates the durations of a time-card  *)
(* document per rubric code, update_invoice merges that aggregate into an  *)
(* invoice document and recomputes its totals.                             *)
(*                                                                         *)
(* XML documents are modelled as records holding the elements the code     *)
(* looks up.  Strings that the code orders (dates, rubric codes) are       *)
(* sequences of character codes, compared as Python compares str.          *)
(* Decimal values are pairs (coefficient v, scale s) standing for          *)
(* v / 10^s, as decimal.Decimal keeps them.                                *)
(***************************************************************************)
EXTENDS Integers, Sequences, FiniteSets, TLC

\* ------------------------------------------------------------------------
\* Bounds of the model
\* ------------------------------------------------------------------------

\* time-card records per time-card document
MaxTimeCards == 2

\* calls of update_invoice in one session
MaxMerges == 2

\* changes of the aggregate or of the catalog after the first upload
MaxChanges == 1

\* ------------------------------------------------------------------------
\* decimal.Decimal
\* ------------------------------------------------------------------------

RECURSIVE Pow10(_)
Pow10(n) == IF n = 0 THEN 1 ELSE 10 * Pow10(n - 1)

Abs(n) == IF n < 0 THEN 0 - n ELSE n

Max(a, b) == IF a >= b THEN a ELSE b

Dec(v, s) == [v |-> v, s |-> s]

\* Decimal() and Decimal("0"): zero with exponent 0
DecZero == Dec(0, 0)

\* a + b: exact, the exponent of the result is the smaller exponent
DecAdd(a, b) ==
    LET s == Max(a.s, b.s)
    IN  Dec(a.v * Pow10(s - a.s) + b.v * Pow10(s - b.s), s)

\* a * b: exact, the exponents add
DecMul(a, b) == Dec(a.v * b.v, a.s + b.s)

\* numerical comparison (Decimal.__eq__, __gt__ compare values, not digits)
DecEq(a, b) == a.v * Pow10(b.s) = b.v * Pow10(a.s)

DecGt(a, b) == a.v * Pow10(b.s) > b.v * Pow10(a.s)

\* n / d rounded to an integer, ties to the even neighbour (ROUND_HALF_EVEN,
\* the rounding of the default decimal context)
RoundHalfEven(n, d) ==
    LET a == Abs(n)
        q == a \div d
        r == a % d
        up == (2 * r > d) \/ (2 * r = d /\ q % 2 = 1)
        m == IF up THEN q + 1 ELSE q
    IN  IF n < 0 THEN 0 - m ELSE m

\* x.quantize(Decimal("0.01")) and x.quantize(Decimal("0.00"))
Quantize2(x) ==
    IF x.s <= 2 THEN Dec(x.v * Pow10(2 - x.s), 2)
    ELSE Dec(RoundHalfEven(x.v, Pow10(x.s - 2)), 2)

\* strip trailing zeros of the coefficient while the scale exceeds `ideal`
RECURSIVE Reduce(_, _)
Reduce(x, ideal) ==
    IF x.s > ideal /\ x.v % 10 = 0 THEN Reduce(Dec(x.v \div 10, x.s - 1), ideal)
    ELSE x

\* x / Decimal("100"): exact; the result takes the exponent closest to the
\* ideal one (the exponent of x) that represents the quotient
DecDiv100(x) == Reduce(Dec(x.v, x.s + 2), x.s)

\* ------------------------------------------------------------------------
\* Text of numeric nodes
\* ------------------------------------------------------------------------
\* k: "absent" (no such node), "empty" (node without text), "bad" (text that
\* is no number) or "num" (digits with `s` decimals after the separator sep)

NoNode == [k |-> "absent", v |-> 0, s |-> 0, sep |-> ""]

EmptyText == [k |-> "empty", v |-> 0, s |-> 0, sep |-> ""]

BadText == [k |-> "bad", v |-> 0, s |-> 0, sep |-> ""]

Num(v, s, sep) == [k |-> "num", v |-> v, s |-> s, sep |-> IF s = 0 THEN "" ELSE sep]

\* `elem is not None and elem.text`
HasText(t) == t.k \in {"bad", "num"}

\* Decimal(text.replace(",", ".")): defined on numeric text only, a text
\* that is no number raises decimal.InvalidOperation
ParseDecimal(t) == Dec(t.v, t.s)

\* str(d).replace(".", ",")
FormatComma(d) == Num(d.v, d.s, ",")

\* ------------------------------------------------------------------------
\* Strings the code orders: sequences of character codes
\* ------------------------------------------------------------------------

\* a < b as Python orders str
RECURSIVE StrLess(_, _)
StrLess(a, b) ==
    IF b = <<>> THEN FALSE
    ELSE IF a = <<>> THEN TRUE
    ELSE IF Head(a) # Head(b) THEN Head(a) < Head(b)
    ELSE StrLess(Tail(a), Tail(b))

StrLeq(a, b) == a = b \/ StrLess(a, b)

\* min(...) and max(...) over a non-empty sequence of strings
RECURSIVE MinStr(_)
MinStr(ss) ==
    IF Len(ss) = 1 THEN ss[1]
    ELSE LET m == MinStr(Tail(ss))
         IN  IF StrLess(m, Head(ss)) THEN m ELSE Head(ss)

RECURSIVE MaxStr(_)
MaxStr(ss) ==
    IF Len(ss) = 1 THEN ss[1]
    ELSE LET m == MaxStr(Tail(ss))
         IN  IF StrLess(Head(ss), m) THEN m ELSE Head(ss)

\* ------------------------------------------------------------------------
\* State
\* ------------------------------------------------------------------------

VARIABLES
    rav_content,    \* the time-card document: its TimeCard records in order
    rav_pc,         \* "reading" inside the TimeCard loop, "done" once returned
    tc_pos,         \* position of the next TimeCard record of the loop
    qty_dict,       \* read_rav_content: hours accumulated per code
    all_periods,    \* read_rav_content: (start, end) pairs collected so far
    timecard_id,    \* read_rav_content: first non-empty identifier seen
    details,        \* read_rav_content: one (code, heures, tc_id) per entry
    rav_data,       \* what read_rav_content returned, handed to update_invoice
    rubrics,        \* st.session_state.rubrics, the rubric catalog
    invoice_content,\* the invoice document handed to update_invoice
    tree,           \* update_invoice: the parsed tree when the last call ended
    outcome,        \* how the last call ended: "none", "ok" or the exception
    updated_content,\* what the last call returned: <<document>>, <<>> for none
    last,           \* the document, aggregate and catalog of the last call
    again,          \* the last call merged the output of the call before it
                    \* with the same aggregate and catalog
    merges,         \* calls of update_invoice so far
    changes         \* changes of aggregate or catalog so far

rav_vars == <<rav_content, rav_pc, tc_pos, qty_dict, all_periods, timecard_id,
              details>>

merge_vars == <<rubrics, invoice_content, tree, outcome, updated_content, last,
                again, merges, changes>>

vars == <<rav_vars, rav_data, merge_vars>>

\* ------------------------------------------------------------------------
\* Time-card documents
\* ------------------------------------------------------------------------

\* the empty string: a missing node, a node without text
NoStr == <<>>

\* rubric codes of the model: "100010", "100120", "400110" are in
\* DEFAULT_RUBRICS, "9" and "10" are not
Code100010 == <<1, 0, 0, 0, 1, 0>>

Code100120 == <<1, 0, 0, 1, 2, 0>>

Code400110 == <<4, 0, 0, 1, 1, 0>>

Code9 == <<9>>

Code10 == <<1, 0>>

\* dates of the model: "01", "05", "10" and the unpadded "3"
Date01 == <<0, 1>>

Date05 == <<0, 5>>

Date10 == <<1, 0>>

Date3 == <<3>>

Interval(idValue, rateId, payType, duration) ==
    [idValue |-> idValue, rateId |-> rateId, payType |-> payType,
     duration |-> duration]

\* TimeInterval entries: code in Id/IdValue, in RateOrAmount/Id/IdValue, in
\* PayTypeCode, or nowhere; Duration "800", "200", "12,5", "0" or missing
Intervals ==
    { Interval(Code100010, NoStr, NoStr, Num(800, 0, "")),
      Interval(NoStr, Code100010, Code9, Num(200, 0, "")),
      Interval(NoStr, NoStr, Code9, Num(125, 1, ",")),
      Interval(Code100010, NoStr, NoStr, Num(0, 0, "")),
      Interval(NoStr, NoStr, NoStr, Num(300, 0, "")),
      Interval(Code9, NoStr, NoStr, NoNode) }

IntervalLists ==
    {<<>>} \cup {<<i>> : i \in Intervals} \cup {<<i, j>> : i, j \in Intervals}

TimeCard(nestedId, directId, reported, own, intervals) ==
    [nestedId |-> nestedId, directId |-> directId, reported |-> reported,
     own |-> own, intervals |-> intervals]

\* a PeriodStartDate / PeriodEndDate pair; present = FALSE: no ReportedTime
Dates(present, start, end) == [present |-> present, start |-> start, end |-> end]

NoDates == Dates(FALSE, NoStr, NoStr)

\* records that differ in their TimeInterval entries
QtyTimeCards ==
    { TimeCard("TC1", "", NoDates, NoDates, l) : l \in IntervalLists }

\* records that differ in their identifiers and date pairs
PeriodTimeCards ==
    { TimeCard(id[1], id[2], rep, own, <<>>) :
        id \in {<<"TC1", "">>, <<"", "TC2">>, <<"", "">>},
        rep \in {NoDates, Dates(TRUE, Date05, NoStr),
                 Dates(TRUE, Date05, Date10), Dates(TRUE, Date01, Date3)},
        own \in {NoDates, Dates(TRUE, Date01, Date05), Dates(TRUE, Date3, Date10)} }

SeqsUpTo(S, n) == UNION { [1..k -> S] : k \in 0..n }

RavDocuments ==
    SeqsUpTo(QtyTimeCards, MaxTimeCards) \cup SeqsUpTo(PeriodTimeCards, MaxTimeCards)

\* ------------------------------------------------------------------------
\* read_rav_content
\* ------------------------------------------------------------------------

\* first non-empty of Id/IdValue, RateOrAmount/Id/IdValue, PayTypeCode
ResolveCode(iv) ==
    IF iv.idValue # NoStr THEN iv.idValue
    ELSE IF iv.rateId # NoStr THEN iv.rateId
    ELSE iv.payType

\* findtext("ns:Duration", default="0")
DurationStr(iv) == IF iv.duration.k = "absent" THEN Num(0, 0, "") ELSE iv.duration

\* `code and duration_str and duration_str != "0"`
Accepted(iv) ==
    /\ ResolveCode(iv) # NoStr
    /\ HasText(DurationStr(iv))
    /\ DurationStr(iv) # Num(0, 0, "")

\* heures = Decimal(duration_str.replace(",", ".")) / Decimal("100")
Heures(iv) == DecDiv100(ParseDecimal(DurationStr(iv)))

\* qty_dict[code] = heures: the entry replaces the hours kept for the code
AddHeuresOverwrite(q, code, heures) ==
    [c \in DOMAIN q \cup {code} |-> IF c = code THEN heures ELSE q[c]]

\* qty_dict[code] += heures, on a defaultdict(Decimal)
AddHeures(q, code, heures) ==
    IF code \in DOMAIN q THEN [q EXCEPT ![code] = DecAdd(@, heures)]
    ELSE [c \in DOMAIN q \cup {code} |->
            IF c = code THEN DecAdd(DecZero, heures) ELSE q[c]]

\* the TimeInterval loop of one record
RECURSIVE ReadIntervals(_, _)
ReadIntervals(ivs, q) ==
    IF ivs = <<>> THEN q
    ELSE LET iv == Head(ivs)
         IN  ReadIntervals(Tail(ivs),
                 IF Accepted(iv) THEN AddHeures(q, ResolveCode(iv), Heures(iv))
                 ELSE q)

RECURSIVE IntervalDetails(_, _)
IntervalDetails(ivs, tc_id) ==
    IF ivs = <<>> THEN <<>>
    ELSE LET iv == Head(ivs)
             rest == IntervalDetails(Tail(ivs), tc_id)
         IN  IF Accepted(iv)
             THEN <<[code |-> ResolveCode(iv), heures |-> Heures(iv),
                     timecard_id |-> tc_id]>> \o rest
             ELSE rest

\* identifier of a record: .//TimeCardId/IdValue, else Id/IdValue
TcId(tc) == IF tc.nestedId # "" THEN tc.nestedId ELSE tc.directId

HasPair(d) == d.present /\ d.start # NoStr /\ d.end # NoStr

\* the period collected at a record, given the periods collected before it
CollectPeriods(tc, periods) ==
    LET p1 == IF HasPair(tc.reported)
              THEN Append(periods, <<tc.reported.start, tc.reported.end>>)
              ELSE periods
    IN  IF p1 = <<>> /\ HasPair(tc.own)
        THEN Append(p1, <<tc.own.start, tc.own.end>>)
        ELSE p1

Starts(periods) == [i \in 1..Len(periods) |-> periods[i][1]]

Ends(periods) == [i \in 1..Len(periods) |-> periods[i][2]]

PeriodStart(periods) == IF periods # <<>> THEN MinStr(Starts(periods)) ELSE NoStr

\* the end of the first period collected, in place of the greatest
PeriodEndOfFirst(periods) == IF periods # <<>> THEN periods[1][2] ELSE NoStr

PeriodEnd(periods) == IF periods # <<>> THEN MaxStr(Ends(periods)) ELSE NoStr

NoRavData ==
    [quantities |-> <<>>, period_start |-> NoStr, period_end |-> NoStr,
     timecard_id |-> ""]

\* one pass of `for timecard in tree.xpath(".//ns:TimeCard")`
ReadTimeCard ==
    /\ rav_pc = "reading"
    /\ tc_pos <= Len(rav_content)
    /\ LET tc == rav_content[tc_pos]
       IN  /\ timecard_id' = IF TcId(tc) # "" /\ timecard_id = "" THEN TcId(tc)
                             ELSE timecard_id
           /\ all_periods' = CollectPeriods(tc, all_periods)
           /\ qty_dict' = ReadIntervals(tc.intervals, qty_dict)
           /\ details' = details \o IntervalDetails(tc.intervals, TcId(tc))
    /\ tc_pos' = tc_pos + 1
    /\ UNCHANGED <<rav_content, rav_pc, rav_data, merge_vars>>

\* the end of the loop: min / max of the periods, and the return
ReturnRav ==
    /\ rav_pc = "reading"
    /\ tc_pos > Len(rav_content)
    /\ rav_data' = [quantities |-> qty_dict,
                    period_start |-> PeriodStart(all_periods),
                    period_end |-> PeriodEnd(all_periods),
                    timecard_id |-> timecard_id]
    /\ rav_pc' = "done"
    /\ UNCHANGED <<rav_content, tc_pos, qty_dict, all_periods, timecard_id, details,
                   merge_vars>>


\* ------------------------------------------------------------------------
\* Properties of read_rav_content
\* ------------------------------------------------------------------------

\* the TimeInterval entries of the first n records, in document order
RECURSIVE EntriesUpTo(_)
EntriesUpTo(n) ==
    IF n = 0 THEN <<>> ELSE EntriesUpTo(n - 1) \o rav_content[n].intervals

\* a duration text, a count of hundredths of an hour, as a whole number of
\* 1/100000 hour
DurationUnits(t) == t.v * Pow10(3 - t.s)

\* a Decimal number of hours as a whole number of 1/100000 hour
HourUnits(d) == d.v * Pow10(5 - d.s)

\* the entries that count for code c: code c resolved, duration present and
\* not zero
Counts(iv, c) ==
    /\ ResolveCode(iv) = c
    /\ iv.duration.k = "num"
    /\ iv.duration.v # 0

RECURSIVE SumUnits(_, _)
SumUnits(ivs, c) ==
    IF ivs = <<>> THEN 0
    ELSE (IF Counts(Head(ivs), c) THEN DurationUnits(Head(ivs).duration) ELSE 0)
         + SumUnits(Tail(ivs), c)

ModelCodes == {Code100010, Code100120, Code400110, Code9, Code10}

AccumulatedUpTo(q, n) ==
    \A c \in ModelCodes \cup DOMAIN q :
        LET ivs == EntriesUpTo(n)
        IN  /\ (\E i \in 1..Len(ivs) : Counts(ivs[i], c)) => c \in DOMAIN q
            /\ c \in DOMAIN q => HourUnits(q[c]) = SumUnits(ivs, c)

\* C5: the hours kept for a code are the sum of duration/100 over all entries
\* read so far, in all records, whose resolved code is that code and whose
\* duration is present and not zero; the returned quantities are that sum
\* over the whole document.
ExtractorAccumulates ==
    /\ AccumulatedUpTo(qty_dict, tc_pos - 1)
    /\ rav_pc = "done" => AccumulatedUpTo(rav_data.quantities, Len(rav_content))

\* two entries of code 100010, durations 800 and 200 in two records, returned
\* as 10 hours
ExtractorAccumulatesWitness ==
    /\ rav_pc = "done"
    /\ Len(rav_content) = 2
    /\ \A n \in 1..2 : \E i \in 1..Len(rav_content[n].intervals) :
            Counts(rav_content[n].intervals[i], Code100010)
    /\ Code100010 \in DOMAIN rav_data.quantities
    /\ DecEq(rav_data.quantities[Code100010], Dec(1000, 2))

\* C6: the returned periodStart is one of the collected starts and is <=
\* each of them, the returned periodEnd is one of the collected ends and is
\* >= each of them, and both are empty when no period was collected.
PeriodBound ==
    rav_pc = "done" =>
        IF all_periods = <<>>
        THEN rav_data.period_start = NoStr /\ rav_data.period_end = NoStr
        ELSE /\ \E i \in 1..Len(all_periods) :
                    rav_data.period_start = all_periods[i][1]
             /\ \E i \in 1..Len(all_periods) :
                    rav_data.period_end = all_periods[i][2]
             /\ \A i \in 1..Len(all_periods) :
                    /\ StrLeq(rav_data.period_start, all_periods[i][1])
                    /\ StrLeq(all_periods[i][2], rav_data.period_end)

\* two periods collected; the bounds come from the second one
PeriodBoundWitness ==
    /\ rav_pc = "done"
    /\ Len(all_periods) = 2
    /\ rav_data.period_start # all_periods[1][1]
    /\ rav_data.period_end # all_periods[1][2]
    /\ rav_data.period_start = all_periods[2][1]

\* ------------------------------------------------------------------------
\* Rubric catalog
\* ------------------------------------------------------------------------

\* a text made of a fixed part and, for "Rubrique {code}", a code
Label(txt, code) == [txt |-> txt, code |-> code]

NoLabel == Label("", NoStr)

\* f"Rubrique {code}"
RubriqueLabel(code) == Label("Rubrique ", code)

\* `"Heure" in libelle`
ContainsHeure(libelle) ==
    libelle.txt \in {"Heures Supplementaires 125%", "Droit Heures/Jours RTT"}

\* Decimal(str(taux)) of a float written with two decimals: str() keeps one
\* decimal at least and no trailing zero after it (23.70 -> "23.7")
DecimalOfFloat(v, s) == Reduce(Dec(v, s), 1)

Rubric(libelle, v, s, type_ligne) ==
    [libelle |-> Label(libelle, NoStr), taux |-> DecimalOfFloat(v, s),
     type_ligne |-> type_ligne]

Code200020 == <<2, 0, 0, 0, 2, 0>>

Code300110 == <<3, 0, 0, 1, 1, 0>>

Code300120 == <<3, 0, 0, 1, 2, 0>>

Code400200 == <<4, 0, 0, 2, 0, 0>>

DEFAULT_RUBRICS ==
    [c \in {Code100010, Code100120, Code200020, Code300110, Code300120,
            Code400110, Code400200} |->
        CASE c = Code100010 -> Rubric("Base Contrat", 2370, 2, "BL")
          [] c = Code100120 -> Rubric("Heures Supplementaires 125%", 2963, 2, "BL")
          [] c = Code200020 -> Rubric("Droit Heures/Jours RTT", 2492, 2, "BL")
          [] c = Code300110 -> Rubric("Indemnite de Panier de Chantier", 1030, 2, "SL")
          [] c = Code300120 -> Rubric("Indemnite de Transport", 1820, 2, "SL")
          [] c = Code400110 -> Rubric("Prime de Panier de Chantier", 0, 2, "BL")
          [] c = Code400200 -> Rubric("Prime de 13 eme Mois", 0, 2, "BL")]

\* rubrics[new_code] = (new_libelle, float(new_taux), new_type)
SetRubric(r, code, entry) ==
    [c \in DOMAIN r \cup {code} |-> IF c = code THEN entry ELSE r[c]]

\* `libelle, taux, type_ligne = rubrics[code]`, or the fallback entry
LookupRubric(r, code) ==
    IF code \in DOMAIN r THEN r[code]
    ELSE [libelle |-> RubriqueLabel(code), taux |-> Dec(0, 2), type_ligne |-> "BL"]

\* ------------------------------------------------------------------------
\* Invoice documents
\* ------------------------------------------------------------------------

\* characters of line numbers: the digits 0..9, "." and a letter
Dot == 10

Letter == Dot + 1

\* str(n) for n >= 0, as a sequence of digits
RECURSIVE Digits(_)
Digits(n) == IF n < 10 THEN <<n>> ELSE Digits(n \div 10) \o <<n % 10>>

\* f"1.{n}"
LineNumberText(n) == <<1, Dot>> \o Digits(n)

\* num.split('.')[-1]: the characters after the last "."
RECURSIVE LastPart(_)
LastPart(s) ==
    IF s = <<>> THEN <<>>
    ELSE IF s[Len(s)] = Dot THEN <<>>
    ELSE LastPart(SubSeq(s, 1, Len(s) - 1)) \o <<s[Len(s)]>>

HasDot(s) == \E i \in 1..Len(s) : s[i] = Dot

\* int(part) succeeds on a non-empty run of digits
IsInt(part) == part # <<>> /\ \A i \in 1..Len(part) : part[i] \in 0..9

RECURSIVE IntOf(_)
IntOf(part) ==
    IF part = <<>> THEN 0 ELSE 10 * IntOf(SubSeq(part, 1, Len(part) - 1)) + part[Len(part)]

SubLine(num, desc, reason, total, price, qty, uom) ==
    [num |-> num, desc |-> desc, reason |-> reason, total |-> total,
     price |-> price, func |-> IF price.k = "absent" THEN NoNode ELSE Num(1246000, 5, "."),
     perqty |-> IF price.k = "absent" THEN NoNode ELSE Num(190, 2, "."),
     qty |-> qty, uom |-> uom]

DataInfo(name, value) == [name |-> name, value |-> value]

\* a description of the main line: "Prestations du {a} au {b}" or another text
Prestations(a, b) == [prest |-> TRUE, a |-> a, b |-> b]

OtherText == [prest |-> FALSE, a |-> NoStr, b |-> NoStr]

RefChild(tag, id) == [tag |-> tag, id |-> id]

NS_2007 == "2007-04-15"

NS_2004 == "2004-08-02"

\* detect_namespace: the revision whose marker the default namespace holds,
\* else the one the root tag suggests
detect_namespace(doc) ==
    IF doc.defaultNs = NS_2007 THEN NS_2007
    ELSE IF doc.defaultNs = NS_2004 THEN NS_2004
    ELSE IF doc.rootTag = "StaffingEnvelope" THEN NS_2007
    ELSE NS_2004

\* an Invoice node of any namespace is taken
FindInvoiceAnyNamespace(doc) == doc.invoiceNs # "absent"

\* tree.find(".//ns:Invoice"), then tree.find(".//Invoice"); invoiceNs is the
\* namespace of the Invoice element, "" for none, "absent" without the element
FindInvoice(doc) ==
    \/ doc.invoiceNs = detect_namespace(doc)
    \/ doc.invoiceNs = ""

\* ------------------------------------------------------------------------
\* update_invoice
\* ------------------------------------------------------------------------

\* the DataInformation loop: every entry named PeriodStart / PeriodEnd takes
\* the value of the aggregate
SetPeriodValues(infos, period_start, period_end) ==
    [i \in 1..Len(infos) |->
        IF infos[i].name = "PeriodStart" THEN DataInfo("PeriodStart", period_start)
        ELSE IF infos[i].name = "PeriodEnd" THEN DataInfo("PeriodEnd", period_end)
        ELSE infos[i]]

HasInfo(infos, name) == \E i \in 1..Len(infos) : infos[i].name = name

\* the appends that follow the loop
AppendPeriods(infos, scanned, period_start, period_end) ==
    LET a == IF ~HasInfo(infos, "PeriodStart") /\ period_start # NoStr
             THEN Append(scanned, DataInfo("PeriodStart", period_start))
             ELSE scanned
    IN  IF ~HasInfo(infos, "PeriodEnd") /\ period_end # NoStr
        THEN Append(a, DataInfo("PeriodEnd", period_end))
        ELSE a

\* 1. Mise a jour des periodes
UpdatePeriods(header, period_start, period_end) ==
    IF ~header.present THEN header
    ELSE [header EXCEPT
            !.userArea = TRUE,
            !.staffingInfo = IF @ = "absent" THEN "ns" ELSE @,
            !.dataInfo = AppendPeriods(@, SetPeriodValues(@, period_start, period_end),
                                       period_start, period_end)]

\* insert_position stays None: no sibling is looked for, the node is appended
NoInsertPosition(children) == 0

\* position after the last child whose tag ends with StaffingSupplierOrgUnitId,
\* 0 when there is none
InsertPosition(children) ==
    LET at == {i \in 1..Len(children) : children[i].tag = "StaffingSupplierOrgUnitId"}
    IN  IF at = {} THEN 0 ELSE CHOOSE i \in at : \A j \in at : j <= i

InsertAfter(children, pos, child) ==
    SubSeq(children, 1, pos) \o <<child>> \o SubSeq(children, pos + 1, Len(children))

\* 2. Mise a jour du TimeCardId
UpdateTimeCardId(refInfo, tc_id) ==
    IF /\ refInfo.present
       /\ tc_id # ""
       /\ ~\E i \in 1..Len(refInfo.children) : refInfo.children[i].tag = "TimeCardId"
    THEN LET pos == InsertPosition(refInfo.children)
             elem == RefChild("TimeCardId", tc_id)
         IN  [refInfo EXCEPT !.children =
                 IF pos # 0 THEN InsertAfter(@, pos, elem) ELSE Append(@, elem)]
    ELSE refInfo

\* the descriptions of the main line that hold "Prestations du"
UpdateDescriptions(descs, period_start, period_end) ==
    [i \in 1..Len(descs) |->
        IF descs[i].prest /\ period_start # NoStr /\ period_end # NoStr
        THEN Prestations(period_start, period_end)
        ELSE descs[i]]

\* existing_lines: description -> sub-line (its position), the last sub-line
\* of a description replacing the earlier ones, sub-lines without description
\* left out
existing_lines(lines) ==
    [d \in {lines[i].desc : i \in {j \in 1..Len(lines) : lines[j].desc # NoLabel}} |->
        CHOOSE i \in 1..Len(lines) :
            /\ lines[i].desc = d
            /\ \A j \in 1..Len(lines) : lines[j].desc = d => j <= i]

\* existing_lines.values()
ExistingValues(lines) == {existing_lines(lines)[d] : d \in DOMAIN existing_lines(lines)}

\* existing_line_numbers: the text of every LineNumber node of the sub-lines
existing_line_numbers(lines) ==
    {lines[i].num : i \in {j \in 1..Len(lines) : lines[j].num # NoStr}}

\* the numbers whose last dotted part is an integer
SubNums(nums) ==
    {IntOf(LastPart(n)) : n \in {m \in nums : HasDot(m) /\ IsInt(LastPart(m))}}

\* next_line_number = len(existing_line_numbers) + 1: the count of the
\* existing numbers in place of the greatest suffix
NextAfterCount(lines) ==
    Cardinality({i \in 1..Len(lines) : lines[i].num # NoStr}) + 1

\* Determiner le prochain numero
next_line_number(lines) ==
    LET subs == SubNums(existing_line_numbers(lines)) \cup {0}
    IN  (CHOOSE m \in subs : \A k \in subs : k <= m) + 1

\* Decimal(text) raises on the item quantity or the total of a sub-line kept
\* in existing_lines
ExistingRaises(lines) ==
    \E i \in ExistingValues(lines) : lines[i].qty.k = "bad" \/ lines[i].total.k = "bad"

\* Calculer les totaux existants: the sum of the item quantities ("qty") or
\* of the totals over the sub-lines at the positions `kept`
RECURSIVE SumKept(_, _, _, _)
SumKept(lines, kept, field, n) ==
    IF n = 0 THEN Dec(0, 2)
    ELSE LET rest == SumKept(lines, kept, field, n - 1)
             t == IF field = "qty" THEN lines[n].qty ELSE lines[n].total
         IN  IF n \in kept /\ HasText(t)
             THEN DecAdd(rest, ParseDecimal(t))
             ELSE rest

ExistingSum(lines, field) == SumKept(lines, ExistingValues(lines), field, Len(lines))

\* sorted(qty_dict.items()): the codes in ascending str order
RECURSIVE SortedCodes(_)
SortedCodes(codes) ==
    IF codes = {} THEN <<>>
    ELSE LET m == CHOOSE c \in codes : \A d \in codes : StrLeq(c, d)
         IN  <<m>> \o SortedCodes(codes \ {m})

\* the sub-line created for a rubric
NewLine(n, rubric, heures, montant) ==
    [num |-> LineNumberText(n),
     desc |-> rubric.libelle,
     reason |-> rubric.type_ligne,
     total |-> FormatComma(montant),
     price |-> IF DecGt(rubric.taux, DecZero) THEN FormatComma(rubric.taux) ELSE NoNode,
     func |-> IF DecGt(rubric.taux, DecZero) THEN Num(1246000, 5, ".") ELSE NoNode,
     perqty |-> IF DecGt(rubric.taux, DecZero) THEN Num(190, 2, ".") ELSE NoNode,
     qty |-> FormatComma(heures),
     uom |-> IF ContainsHeure(rubric.libelle) THEN "hur" ELSE "pce"]

\* montant = (heures * taux).quantize(Decimal("0.01"))
Montant(heures, taux) == Quantize2(DecMul(heures, taux))

\* `if libelle not in existing_lines`
IsNewLabel(libelle, existing) == libelle \notin existing

\* Ajouter/mettre a jour les nouvelles rubriques: the loop over the sorted
\* codes; st holds the sub-lines, next_line_number and the two running totals
RECURSIVE AddRubrics(_, _, _, _, _)
AddRubrics(codes, quantities, r, existing, st) ==
    IF codes = <<>> THEN st
    ELSE LET code == Head(codes)
             heures == Quantize2(quantities[code])
             rubric == LookupRubric(r, code)
             montant == Montant(heures, rubric.taux)
         IN  IF code = NoStr \/ DecEq(quantities[code], DecZero)
             THEN AddRubrics(Tail(codes), quantities, r, existing, st)
             ELSE IF IsNewLabel(rubric.libelle, existing)
             THEN AddRubrics(Tail(codes), quantities, r, existing,
                     [lines |-> Append(st.lines, NewLine(st.next, rubric, heures, montant)),
                      next |-> st.next + 1,
                      heures |-> DecAdd(st.heures, heures),
                      montant |-> DecAdd(st.montant, montant)])
             ELSE AddRubrics(Tail(codes), quantities, r, existing, st)

\* main_line.find(".//Total"): the Total of the main line itself when it has
\* one, else the first Total met among the sub-lines; 0 for the main line's
\* own, i for the i-th sub-line, -1 for none
MainTotalAt(line) ==
    IF line.total.k # "absent" THEN 0
    ELSE LET at == {i \in 1..Len(line.lines) : line.lines[i].total.k # "absent"}
         IN  IF at = {} THEN 0 - 1 ELSE CHOOSE i \in at : \A j \in at : i <= j

\* Mettre a jour les totaux (of the main line)
WriteMainTotals(line, total_heures, total_montant_ht) ==
    LET at == MainTotalAt(line)
        l1 == IF at = 0 THEN [line EXCEPT !.total = FormatComma(total_montant_ht)]
              ELSE IF at > 0
              THEN [line EXCEPT !.lines[at].total = FormatComma(total_montant_ht)]
              ELSE line
    IN  IF l1.qty.k # "absent" THEN [l1 EXCEPT !.qty = FormatComma(total_heures)]
        ELSE l1

\* tva = (total_montant_ht * Decimal("0.20")).quantize(Decimal("0.01"))
Tva(total_montant_ht) == Quantize2(DecMul(total_montant_ht, Dec(20, 2)))

\* ttc = (total_montant_ht + total_montant_ht * Decimal("0.20")).quantize(...)
Ttc(total_montant_ht) ==
    Quantize2(DecAdd(total_montant_ht, DecMul(total_montant_ht, Dec(20, 2))))

\* Totaux dans le Header
WriteHeaderTotals(header, total_montant_ht) ==
    IF ~header.present THEN header
    ELSE [header EXCEPT
            !.totalCharges = IF @.k # "absent" THEN FormatComma(total_montant_ht) ELSE @,
            !.totalTax = IF @.k # "absent" THEN FormatComma(Tva(total_montant_ht)) ELSE @,
            !.totalAmount = IF @.k # "absent" THEN FormatComma(Ttc(total_montant_ht)) ELSE @]

\* the running totals and sub-lines after the rubric loop
Reconciled(line, rav, r) ==
    AddRubrics(SortedCodes(DOMAIN rav.quantities), rav.quantities, r,
               DOMAIN existing_lines(line.lines),
               [lines |-> line.lines,
                next |-> next_line_number(line.lines),
                heures |-> ExistingSum(line.lines, "qty"),
                montant |-> ExistingSum(line.lines, "total")])

\* the tree after steps 1 and 2 and the description of the main line
WithPeriodsAndId(doc, rav) ==
    [doc EXCEPT
        !.header = UpdatePeriods(@, rav.period_start, rav.period_end),
        !.refInfo = UpdateTimeCardId(@, rav.timecard_id),
        !.mainLine = IF @.present
                     THEN [@ EXCEPT !.descs =
                              UpdateDescriptions(@, rav.period_start, rav.period_end)]
                     ELSE @]

\* 3. Mise a jour des lignes de facturation, and the totals
WithLines(t, rav, r) ==
    IF ~t.mainLine.present THEN t
    ELSE LET st == Reconciled(t.mainLine, rav, r)
         IN  [t EXCEPT
                 !.mainLine = WriteMainTotals([@ EXCEPT !.lines = st.lines],
                                              st.heures, st.montant),
                 !.header = WriteHeaderTotals(@, st.montant)]

\* update_invoice(invoice_content, rav_data) with the catalog r: how it ends
\* ("ok", or the exception raised), the tree as it stands then, and the
\* document returned (none when an exception is raised)
update_invoice(doc, rav, r) ==
    IF ~FindInvoice(doc)
    THEN [outcome |-> "ValueError", tree |-> doc, output |-> <<>>]
    ELSE LET t1 == WithPeriodsAndId(doc, rav)
         IN  IF t1.mainLine.present /\ ExistingRaises(t1.mainLine.lines)
             THEN [outcome |-> "InvalidOperation", tree |-> t1, output |-> <<>>]
             ELSE LET t2 == WithLines(t1, rav, r)
                  IN  [outcome |-> "ok", tree |-> t2, output |-> <<t2>>]

\* ------------------------------------------------------------------------
\* Invoice documents and aggregates of the model
\* ------------------------------------------------------------------------

Header(userArea, staffingInfo, dataInfo, totals) ==
    [present |-> TRUE, userArea |-> userArea, staffingInfo |-> staffingInfo,
     dataInfo |-> dataInfo, totalCharges |-> totals[1], totalTax |-> totals[2],
     totalAmount |-> totals[3]]

NoHeader ==
    [present |-> FALSE, userArea |-> FALSE, staffingInfo |-> "absent",
     dataInfo |-> <<>>, totalCharges |-> NoNode, totalTax |-> NoNode,
     totalAmount |-> NoNode]

MainLine(descs, total, qty, lines) ==
    [present |-> TRUE, descs |-> descs, total |-> total, qty |-> qty, lines |-> lines]

NoMainLine ==
    [present |-> FALSE, descs |-> <<>>, total |-> NoNode, qty |-> NoNode, lines |-> <<>>]

Document(defaultNs, rootTag, invoiceNs, header, refInfo, mainLine) ==
    [defaultNs |-> defaultNs, rootTag |-> rootTag, invoiceNs |-> invoiceNs,
     header |-> header, refInfo |-> refInfo, mainLine |-> mainLine]

\* net, tax and gross nodes of the header: "0,00" each, "500,00" / "100,00" /
\* "600,00", or no node
ZeroTotals == <<Num(0, 2, ","), Num(0, 2, ","), Num(0, 2, ",")>>

PriorTotals == <<Num(50000, 2, ","), Num(10000, 2, ","), Num(60000, 2, ",")>>

NoTotals == <<NoNode, NoNode, NoNode>>

OldPeriods == <<DataInfo("PeriodStart", Date05), DataInfo("PeriodEnd", Date10)>>

BaseHeader == Header(TRUE, "ns", OldPeriods, ZeroTotals)

BaseRefInfo ==
    [present |-> TRUE,
     children |-> <<RefChild("StaffingSupplierOrgUnitId", ""), RefChild("Other", "")>>]

BaseMainLine ==
    MainLine(<<Prestations(Date05, Date10)>>, Num(0, 2, ","), Num(0, 2, ","), <<>>)

\* documents that differ in their namespaces and in where the Invoice node is
NsDocuments ==
    { Document(d, t, i, BaseHeader, BaseRefInfo, BaseMainLine) :
        d \in {NS_2007, NS_2004, ""},
        t \in {"StaffingEnvelope", "Envelope"},
        i \in {NS_2007, NS_2004, "", "absent"} }

Headers ==
    {NoHeader}
    \cup { Header(u, "absent", <<>>, t) :
            u \in BOOLEAN, t \in {ZeroTotals, NoTotals} }
    \cup { Header(TRUE, s, d, t) :
            s \in {"ns", "plain"},
            d \in {<<>>, OldPeriods, <<DataInfo("PeriodStart", Date05)>>,
                   <<DataInfo("Other", Date10), DataInfo("PeriodEnd", Date10)>>},
            t \in {ZeroTotals, NoTotals} }

\* documents that differ in their header
HeaderDocuments ==
    { Document(NS_2007, "StaffingEnvelope", NS_2007, h, BaseRefInfo, BaseMainLine) :
        h \in Headers }

RefInfos ==
    { [present |-> FALSE, children |-> <<>>] }
    \cup { [present |-> TRUE, children |-> c] :
            c \in { <<>>,
                    <<RefChild("Other", "")>>,
                    <<RefChild("StaffingSupplierOrgUnitId", ""), RefChild("Other", "")>>,
                    <<RefChild("Other", ""), RefChild("StaffingSupplierOrgUnitId", "")>>,
                    <<RefChild("StaffingSupplierOrgUnitId", ""),
                      RefChild("StaffingSupplierOrgUnitId", ""), RefChild("Other", "")>>,
                    <<RefChild("TimeCardId", "TC0")>>,
                    <<RefChild("StaffingSupplierOrgUnitId", ""),
                      RefChild("TimeCardId", "TC0"), RefChild("Other", "")>> } }

\* documents that differ in their reference-information block
RefDocuments ==
    { Document(NS_2007, "StaffingEnvelope", NS_2007, BaseHeader, r, BaseMainLine) :
        r \in RefInfos }

Plain(txt) == Label(txt, NoStr)

\* sub-lines found in an invoice before any merge
SubLines ==
    { SubLine(<<1, Dot, 1>>, Plain("Base Contrat"), "BL", Num(23700, 2, ","),
              Num(237, 1, ","), Num(1000, 2, ","), "pce"),
      SubLine(<<1, Dot, 2>>, Plain("Frais"), "SL", Num(12125, 3, ","),
              NoNode, Num(100, 2, ","), "pce"),
      SubLine(<<1, Dot, 3>>, NoLabel, "SL", Num(5000, 2, ","),
              NoNode, Num(200, 2, ","), "pce"),
      SubLine(<<1, Dot, Letter>>, Plain("Frais"), "SL", BadText,
              NoNode, EmptyText, "pce"),
      SubLine(<<1, Dot, 7>>, RubriqueLabel(Code9), "BL", Num(0, 2, ","),
              NoNode, Num(550, 2, ","), "pce"),
      SubLine(NoStr, Plain("Divers"), "SL", NoNode, NoNode, NoNode, "pce") }

SubLineLists ==
    {<<>>} \cup {<<a>> : a \in SubLines} \cup {<<a, b>> : a, b \in SubLines}

MainLines ==
    {NoMainLine}
    \cup { MainLine(<<Prestations(Date05, Date10)>>, t[1], t[2], l) :
            t \in {<<Num(0, 2, ","), Num(0, 2, ",")>>, <<NoNode, Num(0, 2, ",")>>,
                   <<NoNode, NoNode>>},
            l \in SubLineLists }

\* documents that differ in their main line and sub-lines
LineDocuments ==
    { Document(NS_2007, "StaffingEnvelope", NS_2007, BaseHeader, BaseRefInfo, m) :
        m \in MainLines }

\* documents with one sub-line at most
ShortLineDocuments == { d \in LineDocuments : Len(d.mainLine.lines) <= 1 }

\* the same, with a net amount of 500,00 in the header
PriorTotalDocuments ==
    { [d EXCEPT !.header = Header(TRUE, "ns", OldPeriods, PriorTotals)] :
        d \in ShortLineDocuments }

RavData(quantities, period, tc_id) ==
    [quantities |-> quantities, period_start |-> period[1], period_end |-> period[2],
     timecard_id |-> tc_id]

\* quantitiesByCode: code -> hours
Quantities ==
    { <<>>,
      (Code100010 :> Dec(10, 0)),
      (Code100010 :> Dec(8, 0)) @@ (Code100120 :> Dec(25, 1)) @@ (Code9 :> Dec(125, 3)),
      (Code9 :> Dec(55, 1)) @@ (Code10 :> Dec(2, 0)) @@ (Code100010 :> Dec(10, 0)),
      (Code100010 :> Dec(0, 0)) @@ (Code400110 :> Dec(3, 0)) }

Periods == {<<NoStr, NoStr>>, <<Date01, Date3>>}

\* aggregates that differ in their period and identifier
PeriodRavData ==
    { RavData((Code100010 :> Dec(10, 0)), p, i) : p \in Periods, i \in {"", "TC9"} }

\* aggregates that differ in their quantities
QuantityRavData == { RavData(q, <<Date01, Date3>>, "TC9") : q \in Quantities }

\* the aggregates of a later upload
LaterRavData ==
    { RavData((Code100010 :> Dec(10, 0)), <<NoStr, NoStr>>, ""),
      RavData((Code9 :> Dec(55, 1)) @@ (Code10 :> Dec(2, 0)), <<Date05, Date10>>, "TC9") }

\* the rubrics the sidebar form adds: the label of another rubric under a
\* code of its own, and the label the fallback gives to code "9"
NewRubrics ==
    { <<Code9, Rubric("Base Contrat", 2370, 2, "BL")>>,
      <<Code10, [libelle |-> RubriqueLabel(Code9), taux |-> DecimalOfFloat(150, 2),
                 type_ligne |-> "SL"]>> }

NoCatalog == <<>>

NoCall == [content |-> <<>>, rav |-> NoRavData, rubrics |-> NoCatalog]

\* ------------------------------------------------------------------------
\* The session: uploads, catalog edits and calls of update_invoice
\* ------------------------------------------------------------------------

\* "Lancer le traitement": update_invoice on the uploaded invoice
UpdateInvoice ==
    /\ merges < MaxMerges
    /\ LET res == update_invoice(invoice_content, rav_data, rubrics)
       IN  /\ outcome' = res.outcome
           /\ tree' = res.tree
           /\ updated_content' = res.output
    /\ last' = [content |-> <<invoice_content>>, rav |-> rav_data, rubrics |-> rubrics]
    /\ again' = (/\ outcome = "ok"
                 /\ updated_content = <<invoice_content>>
                 /\ last.rav = rav_data
                 /\ last.rubrics = rubrics)
    /\ merges' = merges + 1
    /\ UNCHANGED <<rav_vars, rav_data, rubrics, invoice_content, changes>>

\* the enriched file is uploaded as the invoice of the next run
UploadOutput ==
    /\ outcome = "ok"
    /\ updated_content # <<invoice_content>>
    /\ invoice_content' = updated_content[1]
    /\ UNCHANGED <<rav_vars, rav_data, rubrics, tree, outcome, updated_content, last,
                   again, merges, changes>>

\* another time-card document is uploaded and read
UploadRav ==
    /\ changes < MaxChanges
    /\ \E rav \in LaterRavData :
        /\ rav # rav_data
        /\ rav_data' = rav
    /\ changes' = changes + 1
    /\ UNCHANGED <<rav_vars, rubrics, invoice_content, tree, outcome, updated_content,
                   last, again, merges>>

\* the "Ajouter" button of the sidebar
AddRubric ==
    /\ changes < MaxChanges
    /\ \E new \in NewRubrics :
        /\ rubrics' = SetRubric(rubrics, new[1], new[2])
        /\ rubrics' # rubrics
    /\ changes' = changes + 1
    /\ UNCHANGED <<rav_vars, rav_data, invoice_content, tree, outcome, updated_content,
                   last, again, merges>>

\* the "Reinitialiser les rubriques" button
ResetRubrics ==
    /\ changes < MaxChanges
    /\ rubrics # DEFAULT_RUBRICS
    /\ rubrics' = DEFAULT_RUBRICS
    /\ changes' = changes + 1
    /\ UNCHANGED <<rav_vars, rav_data, invoice_content, tree, outcome, updated_content,
                   last, again, merges>>

\* no call of update_invoice yet
InitMerge(doc, rav, r) ==
    /\ invoice_content = doc
    /\ rav_data = rav
    /\ rubrics = r
    /\ tree = doc
    /\ outcome = "none"
    /\ updated_content = <<>>
    /\ last = NoCall
    /\ again = FALSE
    /\ merges = 0
    /\ changes = 0

\* the time-card document has been read
RavRead ==
    /\ rav_content = <<>>
    /\ rav_pc = "done"
    /\ tc_pos = 1
    /\ qty_dict = <<>>
    /\ all_periods = <<>>
    /\ timecard_id = ""
    /\ details = <<>>

BaseDocument ==
    Document(NS_2007, "StaffingEnvelope", NS_2007, BaseHeader, BaseRefInfo, BaseMainLine)

\* read_rav_content on a time-card document
InitRav ==
    /\ rav_content \in RavDocuments
    /\ rav_pc = "reading"
    /\ tc_pos = 1
    /\ qty_dict = <<>>
    /\ all_periods = <<>>
    /\ timecard_id = ""
    /\ details = <<>>
    /\ InitMerge(BaseDocument, NoRavData, DEFAULT_RUBRICS)

NextRav == ReadTimeCard \/ ReturnRav

SpecRav == InitRav /\ [][NextRav]_vars

\* update_invoice on an invoice document, an aggregate and a catalog
Init ==
    /\ RavRead
    /\ \/ \E doc \in NsDocuments \cup HeaderDocuments \cup RefDocuments,
             rav \in PeriodRavData :
            InitMerge(doc, rav, DEFAULT_RUBRICS)
       \/ \E doc \in LineDocuments, rav \in QuantityRavData :
            InitMerge(doc, rav, DEFAULT_RUBRICS)
       \/ \E doc \in PriorTotalDocuments, rav \in QuantityRavData :
            InitMerge(doc, rav, DEFAULT_RUBRICS)
       \/ \E doc \in ShortLineDocuments, rav \in QuantityRavData :
            InitMerge(doc, rav, NoCatalog)

Next == UpdateInvoice \/ UploadOutput \/ UploadRav \/ AddRubric \/ ResetRubrics

Spec == Init /\ [][Next]_vars

\* ------------------------------------------------------------------------
\* Properties of update_invoice
\* ------------------------------------------------------------------------

\* update_invoice has been called; `last` holds what it was called with
Called == outcome # "none"

\* the document the last call was given
Pre == last.content[1]

\* the sub-lines the last call was given, and those it left
PreLines == Pre.mainLine.lines

PostLines == tree.mainLine.lines

\* the sub-lines the last call created (appended to the main line)
Created == SubSeq(PostLines, Len(PreLines) + 1, Len(PostLines))

\* a numeric text as a whole number of thousandths, 0 for any other text
Milli(t) == IF t.k = "num" THEN t.v * Pow10(3 - t.s) ELSE 0

RECURSIVE SumTotals(_)
SumTotals(lines) ==
    IF lines = <<>> THEN 0 ELSE Milli(Head(lines).total) + SumTotals(Tail(lines))

\* C1: merging the output of a merge again with the same aggregate and
\* catalog creates no sub-line (so no second sub-line of a description),
\* leaves the line number, description, charge total and item quantity of
\* every sub-line as the first merge left them, and leaves the net total
\* unchanged.
Idempotence ==
    (again /\ outcome = "ok") =>
        /\ Len(PostLines) = Len(PreLines)
        /\ \A i \in 1..Len(PreLines) :
               i <= Len(PostLines) =>
                   /\ PostLines[i].num = PreLines[i].num
                   /\ PostLines[i].desc = PreLines[i].desc
                   /\ PostLines[i].total = PreLines[i].total
                   /\ PostLines[i].qty = PreLines[i].qty
        /\ tree.header.totalCharges = Pre.header.totalCharges

\* C2: the total written on the main line is, within one cent, the sum of
\* the charge totals of all the sub-lines found before the merge plus the
\* sum of the amounts of the sub-lines the merge created.
Conservation ==
    (outcome = "ok" /\ Pre.mainLine.present /\ Pre.mainLine.total.k # "absent") =>
        Abs(Milli(tree.mainLine.total) - (SumTotals(PreLines) + SumTotals(Created))) <= 10

\* C3: the tax written is round(N x 0.20, 2) and the gross written is
\* round(N + tax, 2), N being the net total written and tax the rounded tax.
TaxIdentity ==
    (/\ outcome = "ok"
     /\ Pre.mainLine.present
     /\ Pre.header.present
     /\ Pre.header.totalCharges.k # "absent"
     /\ Pre.header.totalTax.k # "absent"
     /\ Pre.header.totalAmount.k # "absent") =>
        LET N == ParseDecimal(tree.header.totalCharges)
            tax == ParseDecimal(tree.header.totalTax)
            gross == ParseDecimal(tree.header.totalAmount)
        IN  /\ tax = Quantize2(DecMul(N, Dec(20, 2)))
            /\ gross = Quantize2(DecAdd(N, tax))

\* C4: when the merge creates sub-lines, the net amount of the header after
\* the merge is the net amount it held before plus the amounts of the
\* created sub-lines.
NetTotalIncrease ==
    (/\ outcome = "ok"
     /\ Pre.mainLine.present
     /\ Pre.header.present
     /\ Pre.header.totalCharges.k = "num"
     /\ Created # <<>>) =>
        Milli(tree.header.totalCharges)
            = Milli(Pre.header.totalCharges) + SumTotals(Created)

\* the aggregate without code c
WithoutCode(rav, c) ==
    [rav EXCEPT !.quantities = [d \in DOMAIN rav.quantities \ {c} |-> rav.quantities[d]]]

\* the codes of the last aggregate that the catalog of the last call lacks,
\* with hours that are not zero
UnknownCodes ==
    {c \in DOMAIN last.rav.quantities :
        /\ c # NoStr
        /\ c \notin DOMAIN last.rubrics
        /\ ~DecEq(last.rav.quantities[c], DecZero)}

HasLabel(lines, libelle) == \E i \in 1..Len(lines) : lines[i].desc = libelle

\* C7: for a code absent from the catalog, with hours that are not zero, the
\* merge creates a sub-line "Rubrique {code}" of type BL with amount 0,00 and
\* no price block (none when the invoice already has a sub-line of that
\* description), and header and main line get the net total they would get
\* from the aggregate without that code.
UnknownCodeFallback ==
    (outcome = "ok" /\ Pre.mainLine.present) =>
        \A c \in UnknownCodes :
            /\ IF HasLabel(PreLines, RubriqueLabel(c))
               THEN ~HasLabel(Created, RubriqueLabel(c))
               ELSE \E i \in 1..Len(Created) :
                       /\ Created[i].desc = RubriqueLabel(c)
                       /\ Created[i].reason = "BL"
                       /\ Created[i].total = Num(0, 2, ",")
                       /\ Created[i].price = NoNode
                       /\ Created[i].func = NoNode
                       /\ Created[i].perqty = NoNode
            /\ LET other == update_invoice(Pre, WithoutCode(last.rav, c), last.rubrics).tree
               IN  /\ tree.header.totalCharges = other.header.totalCharges
                   /\ tree.mainLine.total = other.mainLine.total

\* C8: a document without an Invoice node under the namespace of the
\* document and without an unqualified one makes update_invoice raise: no
\* document is returned and the tree is as it was parsed.
StructureError ==
    (Called /\ Pre.invoiceNs # detect_namespace(Pre) /\ Pre.invoiceNs # "") =>
        /\ outcome = "ValueError"
        /\ updated_content = <<>>
        /\ tree = Pre

\* an Invoice node of the other revision's namespace, a period to write and a
\* header that holds other values: the call raises
StructureErrorWitness ==
    /\ outcome = "ValueError"
    /\ Pre.invoiceNs = NS_2004
    /\ Pre.header.present
    /\ last.rav.period_start # NoStr
    /\ HasInfo(Pre.header.dataInfo, "PeriodStart")
    /\ \E i \in 1..Len(Pre.header.dataInfo) :
          /\ Pre.header.dataInfo[i].name = "PeriodStart"
          /\ Pre.header.dataInfo[i].value # last.rav.period_start

\* C9: update_invoice returns a document for every invoice document whose
\* Invoice node one of the two lookups finds, whatever else is missing or
\* malformed.
OnlyStructureErrorAborts ==
    (Called /\ (Pre.invoiceNs = detect_namespace(Pre) \/ Pre.invoiceNs = "")) =>
        outcome = "ok" /\ updated_content # <<>>

\* the values of the DataInformation entries of a name, in order
RECURSIVE ValuesOf(_, _)
ValuesOf(infos, name) ==
    IF infos = <<>> THEN <<>>
    ELSE (IF Head(infos).name = name THEN <<Head(infos).value>> ELSE <<>>)
         \o ValuesOf(Tail(infos), name)

PeriodEntryRule(name, value) ==
    LET before == ValuesOf(Pre.header.dataInfo, name)
        after == ValuesOf(tree.header.dataInfo, name)
    IN  IF value = NoStr THEN after = before
        ELSE IF before # <<>>
        THEN after = [i \in 1..Len(before) |-> value]
        ELSE after = <<value>>

\* C10: an empty periodStart (periodEnd) leaves the PeriodStart (PeriodEnd)
\* entries as they were and appends none; a non-empty one is written into
\* the entry when there is one and appended once otherwise.
EmptyPeriodNeverOverwrites ==
    (outcome = "ok" /\ Pre.header.present) =>
        /\ PeriodEntryRule("PeriodStart", last.rav.period_start)
        /\ PeriodEntryRule("PeriodEnd", last.rav.period_end)

\* a decimal text whose separator, when it has decimals, is the comma
CommaDecimal(t) == t.k = "num" /\ (t.s > 0 => t.sep = ",")

\* a monetary or hours text: comma and exactly two decimals
TwoDecimals(t) == t.k = "num" /\ t.sep = "," /\ t.s = 2

\* C11: every decimal value the merge writes uses a comma as decimal
\* separator, and every monetary value and every hours value written has
\* exactly 2 decimals: charge total, price amount, auxiliary price fields and
\* item quantity of the created sub-lines, total and quantity of the main
\* line, net, tax and gross of the header.
NumericFormatting ==
    (outcome = "ok" /\ Pre.mainLine.present) =>
        /\ \A i \in 1..Len(Created) :
              /\ TwoDecimals(Created[i].total)
              /\ TwoDecimals(Created[i].qty)
              /\ Created[i].price.k # "absent" =>
                    /\ TwoDecimals(Created[i].price)
                    /\ TwoDecimals(Created[i].func)
                    /\ CommaDecimal(Created[i].perqty)
        /\ Pre.mainLine.total.k # "absent" => TwoDecimals(tree.mainLine.total)
        /\ Pre.mainLine.qty.k # "absent" => TwoDecimals(tree.mainLine.qty)
        /\ Pre.header.present =>
              /\ Pre.header.totalCharges.k # "absent" =>
                    TwoDecimals(tree.header.totalCharges)
              /\ Pre.header.totalTax.k # "absent" => TwoDecimals(tree.header.totalTax)
              /\ Pre.header.totalAmount.k # "absent" =>
                    TwoDecimals(tree.header.totalAmount)

\* C12: the merge changes no field of a sub-line that existed before it: the
\* sub-lines found before the merge are, in order and field by field, the
\* first sub-lines after it.
ExistingUntouched ==
    (outcome = "ok" /\ Pre.mainLine.present) =>
        /\ Len(PostLines) >= Len(PreLines)
        /\ \A i \in 1..Len(PreLines) : PostLines[i] = PreLines[i]

\* m: the greatest dotted suffix among the numbers of the sub-lines, 0 when
\* there is none
MaxSuffix(lines) ==
    LET subs == SubNums(existing_line_numbers(lines)) \cup {0}
    IN  CHOOSE m \in subs : \A k \in subs : k <= m

\* the codes of the last aggregate for which the merge creates a sub-line:
\* hours that are not zero and a label that no sub-line had before the merge
CreatingCodes ==
    {c \in DOMAIN last.rav.quantities :
        /\ c # NoStr
        /\ ~DecEq(last.rav.quantities[c], DecZero)
        /\ ~HasLabel(PreLines, LookupRubric(last.rubrics, c).libelle)}

\* the i-th of a set of codes in ascending order: i - 1 codes are below it
CodeAt(codes, i) ==
    CHOOSE c \in codes : Cardinality({d \in codes : StrLess(d, c)}) = i - 1

\* the line numbers of the sub-lines that have one are pairwise distinct
DistinctNumbers(lines) ==
    \A i, j \in 1..Len(lines) :
        (i # j /\ lines[i].num # NoStr) => lines[i].num # lines[j].num

\* C13: with m the greatest dotted suffix among the existing sub-line
\* numbers, the sub-lines one merge creates are numbered 1.(m+1), 1.(m+2), ...
\* in ascending order of their rubric codes; no created number is the number
\* of an existing sub-line, and numbers that were pairwise distinct before a
\* merge are pairwise distinct after it.
LineNumbering ==
    (outcome = "ok" /\ Pre.mainLine.present) =>
        /\ Len(Created) = Cardinality(CreatingCodes)
        /\ \A i \in 1..Len(Created) :
              /\ Created[i].num = LineNumberText(MaxSuffix(PreLines) + i)
              /\ Created[i].desc
                    = LookupRubric(last.rubrics, CodeAt(CreatingCodes, i)).libelle
              /\ \A j \in 1..Len(PreLines) : Created[i].num # PreLines[j].num
        /\ DistinctNumbers(PreLines) => DistinctNumbers(PostLines)

\* sub-lines 1.3 and 1.2 before the merge and codes "10", "100010", "9": the
\* created sub-lines are 1.4 for "10", 1.5 for "100010" and 1.6 for "9"
LineNumberingWitness ==
    /\ outcome = "ok"
    /\ Len(PreLines) = 2
    /\ PreLines[1].num = LineNumberText(3)
    /\ PreLines[2].num = LineNumberText(2)
    /\ Len(Created) = 3
    /\ Created[1].desc = RubriqueLabel(Code10)
    /\ Created[1].num = LineNumberText(4)
    /\ Created[2].desc = Label("Base Contrat", NoStr)
    /\ Created[3].desc = RubriqueLabel(Code9)
    /\ Created[3].num = LineNumberText(6)

\* the positions of the TimeCardId nodes among the children of a block
TimeCardIdsAt(children) ==
    {i \in 1..Len(children) : children[i].tag = "TimeCardId"}

\* `after` is `before` with `child` put in right after position p
InsertedAt(before, after, p, child) ==
    /\ Len(after) = Len(before) + 1
    /\ after[p + 1] = child
    /\ \A i \in 1..Len(before) :
          IF i <= p THEN after[i] = before[i] ELSE after[i + 1] = before[i]

\* C14: a TimeCardId node is created exactly when the reference-information
\* block exists, holds none and the timeCardId of the aggregate is not empty;
\* it holds that identifier and stands right after a
\* StaffingSupplierOrgUnitId sibling when there is one, at the end of the
\* block otherwise; in every other case the block is left as it was, so an
\* existing TimeCardId is never changed and no second one is added.
TimeCardReference ==
    outcome = "ok" =>
        LET before == Pre.refInfo.children
            after == tree.refInfo.children
            creates == /\ Pre.refInfo.present
                       /\ TimeCardIdsAt(before) = {}
                       /\ last.rav.timecard_id # ""
            siblings == {i \in 1..Len(before) :
                            before[i].tag = "StaffingSupplierOrgUnitId"}
        IN  /\ tree.refInfo.present = Pre.refInfo.present
            /\ IF creates
               THEN \E p \in 0..Len(before) :
                       /\ InsertedAt(before, after, p,
                                     RefChild("TimeCardId", last.rav.timecard_id))
                       /\ IF siblings = {} THEN p = Len(before) ELSE p \in siblings
               ELSE after = before
            /\ Cardinality(TimeCardIdsAt(before)) <= 1 =>
                  Cardinality(TimeCardIdsAt(after)) <= 1

\* the output of a merge that put the TimeCardId of the aggregate between
\* StaffingSupplierOrgUnitId and the node that followed it is merged again:
\* the block stays as it is
TimeCardReferenceWitness ==
    /\ again
    /\ outcome = "ok"
    /\ last.rav.timecard_id = "TC9"
    /\ Pre.refInfo.children = <<RefChild("StaffingSupplierOrgUnitId", ""),
                                RefChild("TimeCardId", "TC9"), RefChild("Other", "")>>
    /\ tree.refInfo = Pre.refInfo

\* the period a record resolves to: the pair of its ReportedTime block when
\* that pair is present, else its own pair when that is present
ResolvedPeriod(tc) ==
    IF HasPair(tc.reported) THEN <<(<<tc.reported.start, tc.reported.end>>)>>
    ELSE IF HasPair(tc.own) THEN <<(<<tc.own.start, tc.own.end>>)>>
    ELSE <<>>

\* the periods the first n records resolve to
RECURSIVE ResolvedUpTo(_)
ResolvedUpTo(n) ==
    IF n = 0 THEN <<>> ELSE ResolvedUpTo(n - 1) \o ResolvedPeriod(rav_content[n])

\* C15: the periods collected are, record by record and at any position, the
\* pair of the nested ReportedTime block when present and otherwise the
\* record's own pair when present; the returned bounds cover every one of
\* them.
PerRecordPeriod ==
    /\ all_periods = ResolvedUpTo(tc_pos - 1)
    /\ rav_pc = "done" =>
          \A i \in 1..Len(ResolvedUpTo(Len(rav_content))) :
              LET p == ResolvedUpTo(Len(rav_content))[i]
              IN  /\ StrLeq(rav_data.period_start, p[1])
                  /\ StrLeq(p[2], rav_data.period_end)

\* the descriptions of the sub-lines that have one are pairwise distinct
DistinctDescriptions(lines) ==
    \A i, j \in 1..Len(lines) :
        (i # j /\ lines[i].desc # NoLabel) => lines[i].desc # lines[j].desc

\* C16: sub-lines whose descriptions are pairwise distinct before a merge
\* have pairwise distinct descriptions after it, for every aggregate and
\* every catalog.
DescriptionKey ==
    (outcome = "ok" /\ Pre.mainLine.present /\ DistinctDescriptions(PreLines)) =>
        DistinctDescriptions(PostLines)

====
